---- MODULE Spec2Model ----
(***************************************************************************)
(* One call of Client.ProxyAPI (src/proxy.go): the request encoders, the   *)
(* construction and sending of the outbound request, and the response      *)
(* renderer, as a state machine over the lines of the function.            *)
(*                                                                         *)
(* Byte strings are sequences of one-byte tokens, so Len is the byte       *)
(* length. HTTP headers are functions from the names present to the        *)
(* sequence of their values (net/http.Header).                             *)
(***************************************************************************)
EXTENDS Integers, Sequences, FiniteSets, TLC

(* ------------------------------ bounds -------------------------------- *)

\* longest allow-list of Options.TransferResponseHeaders that is enumerated
MaxAllow == 2
\* most uploaded files of one multipart request
MaxFiles == 2

(* ------------------------- request type constants --------------------- *)

ProxyRequestTypeNone == ""
ProxyRequestTypeRaw == "RAW"
ProxyRequestTypeForm == "FORM"
ProxyRequestTypeMultipartForm == "MULTIPART_FORM"

(* ------------------------------ headers ------------------------------- *)

\* textproto.CanonicalMIMEHeaderKey on the header names that occur here
CanonicalMIMEHeaderKey(k) ==
    CASE k = "set-cookie" -> "Set-Cookie"
      [] k = "content-encoding" -> "Content-Encoding"
      [] OTHER -> k

EmptyHeader == [k \in {} |-> <<>>]

\* http.Header.Get: the first value of the name, "" when there is none
HeaderGet(h, k) ==
    LET ck == CanonicalMIMEHeaderKey(k)
    IN  IF ck \in DOMAIN h /\ Len(h[ck]) > 0 THEN h[ck][1] ELSE ""

\* http.Header.Add: append a value to the values of the name
HeaderAdd(h, k, v) ==
    LET ck == CanonicalMIMEHeaderKey(k)
    IN  [x \in (DOMAIN h) \cup {ck} |->
            IF x = ck
            THEN (IF ck \in DOMAIN h THEN h[ck] ELSE <<>>) \o <<v>>
            ELSE h[x]]

\* http.Header.Set: replace the values of the name by one value
HeaderSet(h, k, v) ==
    LET ck == CanonicalMIMEHeaderKey(k)
    IN  [x \in (DOMAIN h) \cup {ck} |-> IF x = ck THEN <<v>> ELSE h[x]]

\* Add every value of vv under the name k, in order (the loops over vv)
RECURSIVE HeaderAddAll(_, _, _)
HeaderAddAll(h, k, vv) ==
    IF vv = <<>> THEN h
    ELSE HeaderAddAll(HeaderAdd(h, k, Head(vv)), k, Tail(vv))

(* ------------------------------- JSON --------------------------------- *)
(* Bytes: the digits "1" "2", "[", "]", ",", the white space " " and "\n", *)
(* and "x", a byte that starts no JSON value. Values: a number is          *)
(* [t |-> "num", d |-> digits], an array [t |-> "arr", e |-> elements];    *)
(* [t |-> "chan"] is a Go value json cannot encode.                        *)

Digit == {"1", "2"}
Space == {" ", "\n"}

Num(d) == [t |-> "num", d |-> d]
Arr(e) == [t |-> "arr", e |-> e]
Unsupported == [t |-> "chan"]

ParseFail == [ok |-> FALSE, v |-> Unsupported, next |-> 0]

RECURSIVE SkipSpace(_, _)
SkipSpace(s, i) ==
    IF i <= Len(s) /\ s[i] \in Space THEN SkipSpace(s, i + 1) ELSE i

RECURSIVE DigitsEnd(_, _)
DigitsEnd(s, i) ==
    IF i <= Len(s) /\ s[i] \in Digit THEN DigitsEnd(s, i + 1) ELSE i

\* one JSON value read from s at position i: [ok, v, next]
RECURSIVE ParseValue(_, _)
RECURSIVE ParseElements(_, _, _)
ParseValue(s, i) ==
    LET j == SkipSpace(s, i)
    IN  IF j > Len(s) THEN ParseFail
        ELSE IF s[j] \in Digit
        THEN LET e == DigitsEnd(s, j)
             IN  [ok |-> TRUE, v |-> Num(SubSeq(s, j, e - 1)), next |-> e]
        ELSE IF s[j] = "["
        THEN LET k == SkipSpace(s, j + 1)
             IN  IF k <= Len(s) /\ s[k] = "]"
                 THEN [ok |-> TRUE, v |-> Arr(<<>>), next |-> k + 1]
                 ELSE ParseElements(s, k, <<>>)
        ELSE ParseFail

\* the elements of an array after "[", up to and including "]"
ParseElements(s, i, acc) ==
    LET r == ParseValue(s, i)
    IN  IF ~r.ok THEN ParseFail
        ELSE LET k == SkipSpace(s, r.next)
             IN  IF k > Len(s) THEN ParseFail
                 ELSE IF s[k] = "]"
                 THEN [ok |-> TRUE, v |-> Arr(Append(acc, r.v)), next |-> k + 1]
                 ELSE IF s[k] = ","
                 THEN ParseElements(s, k + 1, Append(acc, r.v))
                 ELSE ParseFail

\* json.NewDecoder(r).Decode(&m): the first JSON value of the stream
JSONDecode(s) == ParseValue(s, 1)

RECURSIVE JSONCanEncode(_)
JSONCanEncode(v) ==
    CASE v.t = "num" -> TRUE
      [] v.t = "arr" -> \A i \in 1..Len(v.e) : JSONCanEncode(v.e[i])
      [] OTHER -> FALSE

RECURSIVE JSONText(_)
RECURSIVE JSONJoin(_)
JSONText(v) ==
    IF v.t = "num" THEN v.d ELSE <<"[">> \o JSONJoin(v.e) \o <<"]">>

JSONJoin(e) ==
    IF e = <<>> THEN <<>>
    ELSE IF Len(e) = 1 THEN JSONText(e[1])
    ELSE JSONText(e[1]) \o <<",">> \o JSONJoin(Tail(e))

\* json.NewEncoder(buf).Encode(m): the compact text and a newline
JSONEncode(v) == JSONText(v) \o <<"\n">>

(* ------------------------------- gzip --------------------------------- *)
(* A gzip stream is the header byte "GZ" followed by the deflated data;    *)
(* deflate is a bijection on byte strings that is not the identity, here   *)
(* the reversal.                                                           *)

RECURSIVE Reverse(_)
Reverse(s) == IF s = <<>> THEN <<>> ELSE Append(Reverse(Tail(s)), Head(s))

Gzip(b) == <<"GZ">> \o Reverse(b)

\* gzip.NewReader: fails unless the stream starts with the gzip header
GzipHeaderOK(s) == Len(s) > 0 /\ s[1] = "GZ"

\* the bytes read through the gzip reader
Gunzip(s) == Reverse(Tail(s))

(* ----------------------------- strconv -------------------------------- *)

DecimalDigits == <<"0", "1", "2", "3", "4", "5", "6", "7", "8", "9">>

RECURSIVE Itoa(_)
Itoa(n) ==
    IF n < 10 THEN DecimalDigits[n + 1]
    ELSE Itoa(n \div 10) \o DecimalDigits[(n % 10) + 1]

(* ------------------------------ inputs -------------------------------- *)

NoError == "nil"

\* the values requestType is called with; "raw" is no declared request type
RequestTypes ==
    {ProxyRequestTypeNone, ProxyRequestTypeRaw, ProxyRequestTypeForm,
     ProxyRequestTypeMultipartForm, "raw"}

\* byte strings used as inbound and upstream bodies
Bodies ==
    {<<"1">>, <<" ", "1", "2", "\n">>, <<"[", "1", ",", "2", "]">>,
     <<"[", "1">>, <<"x">>, <<>>}

\* JSON interceptors: nil, the identity, wrapping the value into an array,
\* and one returning a value json cannot encode
JSONInterceptors == {"nil", "id", "wrap", "chan"}

ApplyJSONInterceptor(f, v) ==
    CASE f = "id" -> v
      [] f = "wrap" -> Arr(<<v>>)
      [] OTHER -> Unsupported

\* the allow-lists Options.TransferResponseHeaders is given
AllowNames ==
    {"Set-Cookie", "Content-Encoding", "Content-Length", "Content-Type", "set-cookie"}

AllowLists == UNION {[1..n -> AllowNames] : n \in 0..MaxAllow}

\* inbound header sets
InboundHeaders ==
    {EmptyHeader,
     [k \in {"Content-Type"} |-> <<"text/plain">>],
     [k \in {"Content-Type", "X-Tag"} |->
        IF k = "X-Tag" THEN <<"a", "b">> ELSE <<"text/plain">>]}

\* the caller's RequestInterceptor: nil, or one that sets Content-Type and
\* adds a value to X-Tag
RequestInterceptors == {"nil", "tag"}

\* url.Values of a form: the parsed fields of the inbound request
Forms ==
    {[k \in {} |-> <<>>],
     [k \in {"a", "b"} |-> IF k = "a" THEN <<"1", "2">> ELSE <<"x y">>]}

\* the i-th uploaded file of the inbound multipart form
FileHeader(i) ==
    [field |-> "file", Filename |-> Itoa(i), content |-> <<"1", Itoa(i)>>]

\* the uploaded files of a request with n files, in the order of the loops
Files(n) == [i \in 1..n |-> FileHeader(i)]

NoForm == [k \in {} |-> <<>>]

\* percent-decoding and percent-encoding of a path or a fragment, on the ones
\* that occur here (url.PathUnescape, and url.URL's escape of a path)
Unescape(w) ==
    CASE w = "/a%20b" -> "/a b"
      [] w = "/a%2Fb" -> "/a/b"
      [] w = "f%20g" -> "f g"
      [] OTHER -> w

Escape(d) ==
    CASE d = "/a b" -> "/a%20b"
      [] d = "f g" -> "f%20g"
      [] OTHER -> d

\* the url.URL literal of lines 34-38: RawPath and RawFragment are not set
URL(p, q, f) ==
    [Path |-> p, RawPath |-> "", RawQuery |-> q, Fragment |-> f, RawFragment |-> ""]

\* url.URL.setPath and setFragment: the decoded form, and the received form
\* only when it is not the default encoding of the decoded form
InboundURL(wpath, q, wfrag) ==
    [Path |-> Unescape(wpath),
     RawPath |-> IF Escape(Unescape(wpath)) = wpath THEN "" ELSE wpath,
     RawQuery |-> q,
     Fragment |-> Unescape(wfrag),
     RawFragment |-> IF Escape(Unescape(wfrag)) = wfrag THEN "" ELSE wfrag]

\* an inbound request: header, body, and what ParseForm / ParseMultipartForm
\* make of the body (parse: "ok", or the error they return)
Request(h, b, parse, form, files) ==
    [Header |-> h, Body |-> b, parse |-> parse, PostForm |-> form, File |-> files,
     Method |-> "GET", URL |-> InboundURL("/v1/orders", "", "")]

\* a request without a body, with the method mth and the URL u
RequestTo(mth, u) ==
    [Request(EmptyHeader, <<"1">>, "ok", NoForm, <<>>) EXCEPT !.Method = mth, !.URL = u]

\* the arguments method and path of ProxyAPI
Args(method, path) == [method |-> method, path |-> path]

\* paths, queries and fragments of inbound targets, as received
InboundPaths == {"", "/v1/orders", "/a%20b", "/a%2Fb"}
InboundQueries == {"", "status=open"}
InboundFragments == {"", "top", "f%20g"}

\* url.URL.EscapedPath: RawPath when it is an encoding of Path
EscapedPath(u) ==
    IF u.RawPath # "" /\ Unescape(u.RawPath) = u.Path THEN u.RawPath
    ELSE Escape(u.Path)

\* url.URL.EscapedFragment
EscapedFragment(u) ==
    IF u.RawFragment # "" /\ Unescape(u.RawFragment) = u.Fragment THEN u.RawFragment
    ELSE Escape(u.Fragment)

\* url.URL.String of a URL with neither scheme nor host, whose path is empty
\* or starts with "/"
URLString(u) ==
    EscapedPath(u)
    \o (IF u.RawQuery # "" THEN "?" \o u.RawQuery ELSE "")
    \o (IF u.Fragment # "" THEN "#" \o EscapedFragment(u) ELSE "")

Option(allow, resJSON, reqI, reqJSON, reqForm, reqMP) ==
    [TransferResponseHeaders |-> allow,
     ResponseJSONInterceptor |-> resJSON,
     URLInterceptor |-> "nil",
     RequestInterceptor |-> reqI,
     RequestJSONInterceptor |-> reqJSON,
     RequestFormInterceptor |-> reqForm,
     RequestMultipartFormInterceptor |-> reqMP]

\* upstream responses the collaborator may return
Response(code, h, b) == [StatusCode |-> code, Header |-> h, Body |-> b]

H1(k1, v1) == [k \in {k1} |-> v1]
H2(k1, v1, k2, v2) == [k \in {k1, k2} |-> IF k = k1 THEN v1 ELSE v2]
H3(k1, v1, k2, v2, k3, v3) ==
    [k \in {k1, k2, k3} |-> IF k = k1 THEN v1 ELSE IF k = k2 THEN v2 ELSE v3]

Upstream ==
    {Response(200, H2("Content-Type", <<"application/json">>,
                      "Content-Length", <<"1">>), <<"1">>),
     Response(200, H3("Content-Encoding", <<"gzip">>,
                      "Content-Length", <<"6">>,
                      "Set-Cookie", <<"a", "b">>),
              Gzip(<<"[", "1", ",", "2", "]">>)),
     Response(200, H2("Content-Encoding", <<"gzip">>,
                      "Content-Type", <<"application/json">>),
              <<"x", "1">>),
     Response(200, H1("Content-Encoding", <<"gzip">>), Gzip(<<"x">>)),
     Response(500, H2("Content-Type", <<"text/plain">>,
                      "X-Up", <<"u">>), <<"x">>),
     Response(404, EmptyHeader, <<>>),
     Response(200, H2("Content-Type", <<"text/plain", "second">>,
                      "Content-Length", <<"">>), <<"1">>),
     Response(200, H2("Content-Encoding", <<"", "gzip">>,
                      "Content-Length", <<"2", "2">>), <<"1", "2">>),
     Response(200, H3("Content-Encoding", <<"br">>,
                      "Content-Length", <<"4">>,
                      "Set-Cookie", <<"c">>),
              <<" ", "1", "2", "\n">>)}

(* ------------------------------- state -------------------------------- *)

VARIABLES
    pc,                 \* the line ProxyAPI (or the running encoder) is at
    requestType,        \* argument requestType
    opt,                \* *proxy.Options after the option functions ran
    httpReq,            \* the inbound request
    args,               \* the arguments method and path ProxyAPI was called with
    method,             \* parameter method, assigned at line 44
    path,               \* parameter path, assigned at line 39
    trace,              \* the calls made on the request side, in order
    inClosed,           \* number of Close calls on httpReq.Body
    handles,            \* per uploaded file: "unopened", "open" or "closed"
    mw,                 \* the multipart writer and the buffer it writes to
    fi,                 \* index of the file the multipart loop is at
    reqBody,            \* the encoder's body
    reqContentType,     \* the encoder's content type
    err,                \* the error ProxyAPI returns
    apiReq,             \* the request handed to the collaborator
    sent,               \* the requests the collaborator was invoked with
    res,                \* the upstream response
    resClosed,          \* number of Close calls on res.Body
    todo,               \* names of res.Header the transfer loop has not visited
    wHeader,            \* writer.Header()
    wCommitted,         \* the header the sink sent with the status code
    wStatus,            \* the status codes written with writer.WriteHeader
    wBody,              \* the bytes written to writer
    log,                \* the calls made on writer, in order
    resContentEncoding, \* local resContentEncoding
    reader,             \* the bytes the JSON decoder reads from
    m,                  \* local m
    buf                 \* local buf

vars ==
    <<pc, requestType, opt, httpReq, args, method, path, trace, inClosed,
      handles, mw, fi, reqBody,
      reqContentType, err, apiReq, sent, res, resClosed, todo, wHeader,
      wCommitted,
      wStatus, wBody, log, resContentEncoding, reader, m, buf>>

encoderVars == <<inClosed, handles, mw, fi, reqBody, reqContentType>>
sinkVars == <<wHeader, wCommitted, wStatus, wBody, log>>
renderVars == <<resContentEncoding, reader, m, buf>>
inputVars == <<requestType, opt, httpReq, args>>
targetVars == <<method, path>>

NilBody == [kind |-> "nil", bytes |-> <<>>]
NoWriter == [made |-> FALSE, parts |-> <<>>, closed |-> FALSE]
NoRequest == [Method |-> "", Path |-> "", Body |-> NilBody, interceptors |-> <<>>]
NoResponse == Response(0, EmptyHeader, <<>>)

\* Calls that exercise the encoders and the outbound request, with two
\* renderer configurations
EncoderCalls ==
    {<<t, Option(allow, rj, ri, qj, qf, qm), Request(h, b, p, f, Files(n)),
       Args("", "")>> :
        t \in RequestTypes, allow \in {<<>>}, rj \in {"nil", "id"},
        ri \in RequestInterceptors, qj \in JSONInterceptors,
        qf \in {"nil", "dropB"}, qm \in {"nil", "addField"},
        h \in InboundHeaders, b \in {<<"1">>, <<"x">>},
        p \in {"ok", "malformed", "too large"}, f \in Forms, n \in 0..MaxFiles}

\* an encoder reads only its own interceptor and its own part of the request
Relevant(t, o, r) ==
    /\ t # ProxyRequestTypeRaw =>
          o.RequestJSONInterceptor = "nil" /\ r.Body = <<"1">>
    /\ (t = ProxyRequestTypeRaw /\ o.RequestJSONInterceptor = "nil") =>
          r.Body = <<"1">>
    /\ t # ProxyRequestTypeForm => o.RequestFormInterceptor = "nil"
    /\ t # ProxyRequestTypeMultipartForm =>
          o.RequestMultipartFormInterceptor = "nil" /\ r.File = <<>>
    /\ t \notin {ProxyRequestTypeForm, ProxyRequestTypeMultipartForm} =>
          r.parse = "ok" /\ r.PostForm = NoForm
    /\ t = ProxyRequestTypeForm => r.parse # "too large"
    /\ r.parse # "ok" => r.PostForm = NoForm /\ r.File = <<>>

\* Calls that exercise the renderer: every allow-list and every response
\* interceptor, on a request without a body
RendererCalls ==
    {<<ProxyRequestTypeNone, Option(allow, rj, "nil", "nil", "nil", "nil"),
       Request(EmptyHeader, <<"1">>, "ok", NoForm, <<>>), Args("", "")>> :
        allow \in AllowLists, rj \in JSONInterceptors}

\* Calls that exercise the resolution of method and path
TargetCalls ==
    {<<ProxyRequestTypeNone, Option(<<>>, "nil", "nil", "nil", "nil", "nil"),
       RequestTo(im, InboundURL(p, q, f)), Args(am, ap)>> :
        im \in {"GET", "PUT"}, p \in InboundPaths, q \in InboundQueries,
        f \in InboundFragments, am \in {"", "POST"},
        ap \in {"", "/up?x=1", "http://api/v2 x"}}

Calls ==
    {c \in EncoderCalls : Relevant(c[1], c[2], c[3])} \cup RendererCalls
    \cup TargetCalls

Init ==
    /\ \E c \in Calls :
        /\ requestType = c[1]
        /\ opt = c[2]
        /\ httpReq = c[3]
        /\ args = c[4]
        /\ method = c[4].method
        /\ path = c[4].path
        /\ handles = [i \in 1..Len(c[3].File) |-> "unopened"]
    /\ pc = "start"
    /\ trace = <<>>
    /\ inClosed = 0
    /\ mw = NoWriter
    /\ fi = 0
    /\ reqBody = NilBody
    /\ reqContentType = ""
    /\ err = NoError
    /\ apiReq = NoRequest
    /\ sent = <<>>
    /\ res = NoResponse
    /\ resClosed = 0
    /\ todo = {}
    /\ wHeader = EmptyHeader
    /\ wCommitted = EmptyHeader
    /\ wStatus = <<>>
    /\ wBody = <<>>
    /\ log = <<>>
    /\ resContentEncoding = ""
    /\ reader = <<>>
    /\ m = Unsupported
    /\ buf = <<>>

(* ------------------------ ProxyAPI, lines 33-53 ----------------------- *)

\* lines 33-40
ResolvePath(p, req) ==
    IF p = ""
    THEN URLString(URL(req.URL.Path, req.URL.RawQuery, req.URL.Fragment))
    ELSE p

\* lines 42-45
ResolveMethod(mth, req) == IF mth = "" THEN req.Method ELSE mth

\* lines 33-53
Resolve ==
    /\ pc = "start"
    /\ path' = ResolvePath(path, httpReq)
    /\ method' = ResolveMethod(method, httpReq)
    /\ pc' = "encode"
    /\ UNCHANGED <<inputVars, trace, encoderVars, err, apiReq, sent, res, resClosed,
                   todo, sinkVars, renderVars>>

(* ------------------------ ProxyAPI, lines 55-73 ----------------------- *)

\* the encoder's error is not looked at: the request is built and sent
EncoderReturnsUnchecked(body, ct, e) ==
    /\ reqBody' = body
    /\ reqContentType' = ct
    /\ err' = e
    /\ pc' = "build"

\* lines 70-73: the encoder's results are assigned; an error is returned
EncoderReturns(body, ct, e) ==
    /\ reqBody' = body
    /\ reqContentType' = ct
    /\ err' = e
    /\ pc' = IF e = NoError THEN "build" ELSE "done"

\* the request type is compared whatever its case
SelectEncoderIgnoringCase(t) ==
    CASE t \in {ProxyRequestTypeRaw, "raw"} -> "parseRawRequest"
      [] t = ProxyRequestTypeForm -> "parseFormRequest"
      [] t = ProxyRequestTypeMultipartForm -> "parseMultipartFormRequest"
      [] OTHER -> "func"

\* lines 57-68: reqParseFunc; "func" is the function literal of lines 65-67
SelectEncoder(t) ==
    CASE t = ProxyRequestTypeRaw -> "parseRawRequest"
      [] t = ProxyRequestTypeForm -> "parseFormRequest"
      [] t = ProxyRequestTypeMultipartForm -> "parseMultipartFormRequest"
      [] OTHER -> "func"

\* lines 64-67: the encoder of every other request type
EncodeNone ==
    /\ pc = "encode"
    /\ SelectEncoder(requestType) = "func"
    /\ trace' = Append(trace, "func")
    /\ EncoderReturns(NilBody, "", NoError)
    /\ UNCHANGED <<inClosed, handles, mw, fi>>
    /\ UNCHANGED <<inputVars, targetVars, apiReq, sent, res, resClosed, todo,
                   sinkVars, renderVars>>

(* ---------------------------- parseRawRequest ------------------------- *)

\* req.Body closed only when the encoder returns no error
InboundCloseOnSuccess(e) == IF e = NoError THEN 1 ELSE 0

\* line 224, defer req.Body.Close(): the number of Close calls made when the
\* encoder returns e
DeferredInboundClose(e) == 1

\* the result of parseRawRequest, the number of times it closes req.Body and
\* the calls it makes
ParseRawRequest(req, o) ==
    IF o.RequestJSONInterceptor # "nil"
    THEN LET d == JSONDecode(req.Body)
             v == ApplyJSONInterceptor(o.RequestJSONInterceptor, d.v)
             r == IF ~d.ok
                  THEN [body |-> NilBody, ct |-> "", err |-> "request json decode",
                        closes |-> 0, applied |-> FALSE, calls |-> <<"Decode">>]
                  ELSE IF ~JSONCanEncode(v)
                  THEN [body |-> NilBody, ct |-> "", err |-> "request json encode",
                        closes |-> 0, applied |-> TRUE,
                        calls |-> <<"Decode", "RequestJSONInterceptor", "Encode">>]
                  ELSE [body |-> [kind |-> "buffer", bytes |-> JSONEncode(v)],
                        ct |-> "application/json; charset=utf-8", err |-> NoError,
                        closes |-> 0, applied |-> TRUE,
                        calls |-> <<"Decode", "RequestJSONInterceptor", "Encode">>]
             n == DeferredInboundClose(r.err)
         IN  [r EXCEPT !.closes = n,
                       !.calls = @ \o [i \in 1..n |-> "Body.Close"]]
    ELSE LET contentType == HeaderGet(req.Header, "Content-Type")
         IN  [body |-> [kind |-> "stream", bytes |-> req.Body],
              ct |-> IF contentType = "" THEN "application/octet-stream"
                     ELSE contentType,
              err |-> NoError, closes |-> 0, applied |-> FALSE, calls |-> <<>>]

EncodeRaw ==
    /\ pc = "encode"
    /\ SelectEncoder(requestType) = "parseRawRequest"
    /\ LET r == ParseRawRequest(httpReq, opt)
       IN  /\ EncoderReturns(r.body, r.ct, r.err)
           /\ inClosed' = inClosed + r.closes
           /\ trace' = Append(trace, "parseRawRequest") \o r.calls
    /\ UNCHANGED <<handles, mw, fi>>
    /\ UNCHANGED <<inputVars, targetVars, apiReq, sent, res, resClosed, todo,
                   sinkVars, renderVars>>

(* --------------------------- parseFormRequest ------------------------- *)

\* the order url.Values.Encode sorts the keys that occur here into
KeyOrder == <<"a", "b", "extra">>

\* url.QueryEscape on the keys and values that occur here
QueryEscape(x) == IF x = "x y" THEN "x+y" ELSE x

\* only the first value of every field is added
CopyValuesFirstOnly(form) ==
    [k \in {x \in DOMAIN form : form[x] # <<>>} |-> <<Head(form[k])>>]

\* lines 255-260: a fresh url.Values with every value of every field added
CopyValues(form) == [k \in {x \in DOMAIN form : form[x] # <<>>} |-> form[k]]

\* the caller's RequestFormInterceptor: "dropB" deletes the key b
ApplyFormInterceptor(f, form) ==
    IF f = "dropB" THEN [k \in (DOMAIN form) \ {"b"} |-> form[k]] ELSE form

RECURSIVE EncodePairs(_, _)
EncodePairs(k, vv) ==
    IF vv = <<>> THEN <<>>
    ELSE <<"&", QueryEscape(k), "=", QueryEscape(Head(vv))>> \o EncodePairs(k, Tail(vv))

RECURSIVE EncodeKeys(_, _)
EncodeKeys(form, i) ==
    IF i > Len(KeyOrder) THEN <<>>
    ELSE (IF KeyOrder[i] \in DOMAIN form
          THEN EncodePairs(KeyOrder[i], form[KeyOrder[i]]) ELSE <<>>)
         \o EncodeKeys(form, i + 1)

\* url.Values.Encode: k=v pairs joined by "&", sorted by key
ValuesEncode(form) ==
    LET s == EncodeKeys(form, 1) IN IF s = <<>> THEN <<>> ELSE Tail(s)

ParseFormRequest(req, o) ==
    IF req.parse # "ok"
    THEN [body |-> NilBody, ct |-> "", err |-> "parse form",
          calls |-> <<"ParseForm">>]
    ELSE LET copied == CopyValues(req.PostForm)
             form == IF o.RequestFormInterceptor # "nil"
                     THEN ApplyFormInterceptor(o.RequestFormInterceptor, copied)
                     ELSE copied
             contentType == HeaderGet(req.Header, "Content-Type")
         IN  [body |-> [kind |-> "string", bytes |-> ValuesEncode(form)],
              ct |-> IF contentType = "" THEN "application/x-www-form-urlencoded"
                     ELSE contentType,
              err |-> NoError,
              calls |-> IF o.RequestFormInterceptor # "nil"
                        THEN <<"ParseForm", "RequestFormInterceptor", "Encode">>
                        ELSE <<"ParseForm", "Encode">>]

EncodeForm ==
    /\ pc = "encode"
    /\ SelectEncoder(requestType) = "parseFormRequest"
    /\ LET r == ParseFormRequest(httpReq, opt)
       IN  /\ EncoderReturns(r.body, r.ct, r.err)
           /\ trace' = Append(trace, "parseFormRequest") \o r.calls
    /\ UNCHANGED <<inClosed, handles, mw, fi>>
    /\ UNCHANGED <<inputVars, targetVars, apiReq, sent, res, resClosed, todo,
                   sinkVars, renderVars>>

(* ----------------------- parseMultipartFormRequest -------------------- *)

Part(kind, name, filename, data) ==
    [kind |-> kind, name |-> name, filename |-> filename, data |-> data]

\* the closing boundary multipart.Writer.Close writes
ClosingBoundary == Part("end", "", "", <<>>)

\* a write to the bytes.Buffer behind the multipart writer returns no error,
\* so WriteField (line 286) and CreateFormFile (line 298) return none
BufferWriteFails == FALSE

RECURSIVE FieldParts(_, _)
FieldParts(k, vv) ==
    IF vv = <<>> THEN <<>>
    ELSE <<Part("field", k, "", <<Head(vv)>>)>> \o FieldParts(k, Tail(vv))

\* the orders in which a range over a map with these keys visits them: Go
\* leaves the order unspecified
RangeOrders(keys) ==
    {o \in [1..Cardinality(keys) -> keys] :
        \A k \in keys : \E i \in DOMAIN o : o[i] = k}

\* lines 284-290: one WriteField per value of every field, the keys visited
\* in the order the range over req.MultipartForm.Value yields them
RECURSIVE WriteFields(_, _)
WriteFields(value, order) ==
    IF order = <<>> THEN <<>>
    ELSE FieldParts(Head(order), value[Head(order)])
         \o WriteFields(value, Tail(order))

\* the writer is left as it is when the encoder returns
WriterNeverClosed(w) == w

\* line 282, defer multiWriter.Close(): runs when the encoder returns
DeferredWriterClose(w) ==
    [w EXCEPT !.parts = IF w.closed THEN @ ELSE Append(@, ClosingBoundary),
              !.closed = TRUE]

\* the call of multiWriter.Close that left the writer w closed
WriterCloseCall(w) == IF w.closed THEN <<"Writer.Close">> ELSE <<>>

\* an error return of the encoder after line 282, out of the call c
MultipartFails(e, c) ==
    /\ mw' = DeferredWriterClose(mw)
    /\ trace' = Append(trace, c) \o WriterCloseCall(mw')
    /\ EncoderReturns(NilBody, "", e)

\* lines 275-282
MultipartParse ==
    /\ pc = "encode"
    /\ SelectEncoder(requestType) = "parseMultipartFormRequest"
    /\ trace' = trace \o <<"parseMultipartFormRequest", "ParseMultipartForm">>
    /\ IF httpReq.parse # "ok"
       THEN /\ EncoderReturns(NilBody, "", httpReq.parse)
            /\ mw' = mw
       ELSE /\ mw' = [made |-> TRUE, parts |-> <<>>, closed |-> FALSE]
            /\ pc' = "fields"
            /\ UNCHANGED <<reqBody, reqContentType, err>>
    /\ UNCHANGED <<inClosed, handles, fi>>
    /\ UNCHANGED <<inputVars, targetVars, apiReq, sent, res, resClosed, todo,
                   sinkVars, renderVars>>

\* lines 284-290, and the entry of the loop of line 292
MultipartFields ==
    /\ pc = "fields"
    /\ IF BufferWriteFails
       THEN /\ MultipartFails("write field", "WriteField")
            /\ fi' = fi
       ELSE /\ \E order \in RangeOrders(DOMAIN httpReq.PostForm) :
                LET parts == WriteFields(httpReq.PostForm, order)
                IN  /\ mw' = [mw EXCEPT !.parts = @ \o parts]
                    /\ trace' = trace \o [i \in 1..Len(parts) |-> "WriteField"]
            /\ fi' = 1
            /\ pc' = IF Len(httpReq.File) >= 1 THEN "open" ELSE "finish"
            /\ UNCHANGED <<reqBody, reqContentType, err>>
    /\ UNCHANGED <<inClosed, handles>>
    /\ UNCHANGED <<inputVars, targetVars, apiReq, sent, res, resClosed, todo,
                   sinkVars, renderVars>>

\* lines 294-297: v.Open()
MultipartOpen ==
    /\ pc = "open"
    /\ \E ok \in BOOLEAN :
        IF ok
        THEN /\ handles' = [handles EXCEPT ![fi] = "open"]
             /\ pc' = "create"
             /\ trace' = Append(trace, "Open")
             /\ UNCHANGED <<mw, reqBody, reqContentType, err>>
        ELSE /\ MultipartFails("open file", "Open")
             /\ handles' = handles
    /\ UNCHANGED <<inClosed, fi>>
    /\ UNCHANGED <<inputVars, targetVars, apiReq, sent, res, resClosed, todo,
                   sinkVars, renderVars>>

\* lines 298-301: multiWriter.CreateFormFile(k, v.Filename)
MultipartCreate ==
    /\ pc = "create"
    /\ IF BufferWriteFails
       THEN MultipartFails("create part", "CreateFormFile")
       ELSE /\ trace' = Append(trace, "CreateFormFile")
            /\ mw' = [mw EXCEPT !.parts =
                        Append(@, Part("file", httpReq.File[fi].field,
                                       httpReq.File[fi].Filename, <<>>))]
            /\ pc' = "copy"
            /\ UNCHANGED <<reqBody, reqContentType, err>>
    /\ UNCHANGED <<inClosed, handles, fi>>
    /\ UNCHANGED <<inputVars, targetVars, apiReq, sent, res, resClosed, todo,
                   sinkVars, renderVars>>

\* what the encoder does with the handle f when io.Copy fails (line 303)
HandleAfterCopyError(h) == h

\* the handle f is left as it is after the copy
HandleLeftOpen(h) == h

\* what the encoder does with the handle f after the copy (line 306)
HandleAfterCopy(h) == "closed"

\* lines 302-304: io.Copy(writer, f); a failed read of f ends it early
MultipartCopy ==
    /\ pc = "copy"
    /\ LET content == httpReq.File[fi].content
           n == Len(mw.parts)
       IN  \E ok \in BOOLEAN :
            IF ok
            THEN /\ mw' = [mw EXCEPT !.parts[n].data = content]
                 /\ pc' = "close"
                 /\ handles' = handles
                 /\ trace' = Append(trace, "Copy")
                 /\ UNCHANGED <<reqBody, reqContentType, err>>
            ELSE \E k \in 0..(Len(content) - 1) :
                 /\ mw' = DeferredWriterClose(
                            [mw EXCEPT !.parts[n].data = SubSeq(content, 1, k)])
                 /\ trace' = Append(trace, "Copy") \o WriterCloseCall(mw')
                 /\ handles' = [handles EXCEPT ![fi] = HandleAfterCopyError(@)]
                 /\ EncoderReturns(NilBody, "", "copy file")
    /\ UNCHANGED <<inClosed, fi>>
    /\ UNCHANGED <<inputVars, targetVars, apiReq, sent, res, resClosed, todo,
                   sinkVars, renderVars>>

\* line 306: f.Close(), and the next iteration of the loop of line 292
MultipartClose ==
    /\ pc = "close"
    /\ handles' = [handles EXCEPT ![fi] = HandleAfterCopy(@)]
    /\ trace' = IF handles'[fi] = "closed" THEN Append(trace, "File.Close") ELSE trace
    /\ fi' = fi + 1
    /\ pc' = IF fi < Len(httpReq.File) THEN "open" ELSE "finish"
    /\ UNCHANGED <<inClosed, mw, reqBody, reqContentType, err>>
    /\ UNCHANGED <<inputVars, targetVars, apiReq, sent, res, resClosed, todo,
                   sinkVars, renderVars>>

\* the caller's RequestMultipartFormInterceptor: "addField" writes a field
ApplyMultipartInterceptor(f, w) ==
    IF f = "addField"
    THEN [w EXCEPT !.parts = Append(@, Part("field", "extra", "", <<"e">>))]
    ELSE w

\* lines 310-314, and the deferred Close of line 282
MultipartFinish ==
    /\ pc = "finish"
    /\ LET w == IF opt.RequestMultipartFormInterceptor # "nil"
                THEN ApplyMultipartInterceptor(
                        opt.RequestMultipartFormInterceptor, mw)
                ELSE mw
       IN  /\ mw' = DeferredWriterClose(w)
           /\ trace' = trace
                        \o (IF opt.RequestMultipartFormInterceptor # "nil"
                            THEN <<"RequestMultipartFormInterceptor">> ELSE <<>>)
                        \o WriterCloseCall(mw')
           /\ EncoderReturns([kind |-> "multipart", bytes |-> mw'.parts],
                             "multipart/form-data; boundary=B", NoError)
    /\ UNCHANGED <<inClosed, handles, fi>>
    /\ UNCHANGED <<inputVars, targetVars, apiReq, sent, res, resClosed, todo,
                   sinkVars, renderVars>>

(* ------------------------ ProxyAPI, lines 75-111 ---------------------- *)

\* lines 76-86: the interceptor seeding the outbound header r from the
\* inbound header, then overriding Content-Type
RECURSIVE AddHeaderKeys(_, _, _)
AddHeaderKeys(r, inbound, keys) ==
    IF keys = {} THEN r
    ELSE LET k == CHOOSE x \in keys : TRUE
         IN  AddHeaderKeys(HeaderAddAll(r, k, inbound[k]), inbound, keys \ {k})

SeedContentType(r, ct) ==
    IF ct # "" THEN HeaderSet(r, "Content-Type", ct) ELSE r

SeedHeader(r, inbound, ct) ==
    SeedContentType(AddHeaderKeys(r, inbound, DOMAIN inbound), ct)

\* the caller's RequestInterceptor "tag": sets Content-Type, adds to X-Tag
ApplyRequestInterceptor(f, r) ==
    IF f = "tag"
    THEN HeaderAdd(HeaderSet(r, "Content-Type", "application/custom"), "X-Tag", "t")
    ELSE r

\* the caller's interceptors appended before the seeding interceptor is set
RequestOptionsSeedLast(o) ==
    (IF o.URLInterceptor # "nil"
     THEN <<[option |-> "AppendURLInterceptors", f |-> o.URLInterceptor]>>
     ELSE <<>>)
    \o (IF o.RequestInterceptor # "nil"
        THEN <<[option |-> "AppendRequestInterceptors", f |-> o.RequestInterceptor]>>
        ELSE <<>>)
    \o <<[option |-> "WithRequestInterceptors", f |-> "seed"],
         [option |-> "WithRequestTimeout", f |-> "nil"]>>

\* lines 75-101: the options of the outbound request, in order
RequestOptions(o) ==
    <<[option |-> "WithRequestInterceptors", f |-> "seed"],
      [option |-> "WithRequestTimeout", f |-> "nil"]>>
    \o (IF o.URLInterceptor # "nil"
        THEN <<[option |-> "AppendURLInterceptors", f |-> o.URLInterceptor]>>
        ELSE <<>>)
    \o (IF o.RequestInterceptor # "nil"
        THEN <<[option |-> "AppendRequestInterceptors", f |-> o.RequestInterceptor]>>
        ELSE <<>>)

\* request.NewAPIRequest: the request interceptors the options leave, in order
RECURSIVE RequestInterceptorsOf(_, _)
RequestInterceptorsOf(options, acc) ==
    IF options = <<>> THEN acc
    ELSE LET o == Head(options)
         IN  RequestInterceptorsOf(Tail(options),
                CASE o.option = "WithRequestInterceptors" -> <<o.f>>
                  [] o.option = "AppendRequestInterceptors" -> Append(acc, o.f)
                  [] OTHER -> acc)

NewAPIRequest(mth, p, body, options) ==
    [Method |-> mth, Path |-> p, Body |-> body,
     interceptors |-> RequestInterceptorsOf(options, <<>>)]

\* lines 75-106
BuildRequest ==
    /\ pc = "build"
    /\ apiReq' = NewAPIRequest(method, path, reqBody, RequestOptions(opt))
    /\ pc' = "send"
    /\ UNCHANGED <<inputVars, targetVars, trace, encoderVars, err, sent, res,
                   resClosed, todo,
                   sinkVars, renderVars>>

\* the collaborator runs the request interceptors in order on the header of
\* the request it builds
RECURSIVE RunInterceptors(_, _)
RunInterceptors(fs, r) ==
    IF fs = <<>> THEN r
    ELSE RunInterceptors(Tail(fs),
            IF Head(fs) = "seed"
            THEN SeedHeader(r, httpReq.Header, reqContentType)
            ELSE ApplyRequestInterceptor(Head(fs), r))

OutboundRequest(req) ==
    [Method |-> req.Method, Path |-> req.Path,
     Header |-> RunInterceptors(req.interceptors, EmptyHeader),
     Body |-> req.Body]

\* the renderer with the status written before the headers are transferred
RendererOrderStatusFirst == <<"status", "transfer", "body">>

\* the renderer with the status written after the body
RendererOrderBodyFirst == <<"transfer", "body", "status">>

\* the steps of the renderer, lines 115-181, in program order
RendererOrder == <<"transfer", "status", "body">>

\* the renderer without the write of the status code
StepAfterSkippingStatus(s) == IF s = "transfer" THEN "body" ELSE "return"

\* the step after step s, "return" after the last
StepAfter(s) ==
    LET i == CHOOSE j \in 1..Len(RendererOrder) : RendererOrder[j] = s
    IN  IF i < Len(RendererOrder) THEN RendererOrder[i + 1] ELSE "return"

\* one invocation of the collaborator: the request it was given and the
\* error it answered with
Invocation(req, e) ==
    [Method |-> req.Method, Path |-> req.Path, Header |-> req.Header,
     Body |-> req.Body, err |-> e]

\* the errors c.DoAPIRequest answers with
SendErrors == {"send"}

\* the error of the send returned with a prefix of ProxyAPI's own
SendErrorWrapped(e) == "proxy: " \o e

\* lines 109-111: what ProxyAPI returns when the send answered the error e
SendErrorReturned(e) == e

\* lines 108-113: c.DoAPIRequest(apiReq)
DoAPIRequest ==
    /\ pc = "send"
    /\ \E e \in SendErrors \cup {NoError} :
        /\ sent' = Append(sent, Invocation(OutboundRequest(apiReq), e))
        /\ trace' = Append(trace, "DoAPIRequest")
        /\ IF e = NoError
           THEN \E r \in Upstream :
                /\ res' = r
                /\ todo' = DOMAIN r.Header
                /\ pc' = RendererOrder[1]
                /\ err' = err
           ELSE /\ err' = SendErrorReturned(e)
                /\ pc' = "done"
                /\ UNCHANGED <<res, todo>>
    /\ UNCHANGED <<inputVars, targetVars, encoderVars, apiReq, resClosed,
                   sinkVars, renderVars>>

(* ------------------- ProxyAPI, lines 113-181: renderer ---------------- *)

Call(op, k) == [op |-> op, k |-> k]

\* res.Body closed at the end of the successful path only
CloseOnSuccessOnly(n, e) == IF e = NoError THEN n + 1 ELSE n

\* line 113, defer res.Body.Close(): the number of Close calls when ProxyAPI
\* returns e, n calls having been made
DeferredBodyClose(n, e) == n + 1

\* a return of ProxyAPI after line 113
RendererReturns(e) ==
    /\ err' = e
    /\ resClosed' = DeferredBodyClose(resClosed, e)
    /\ pc' = "done"

\* the inner loop without its break: once per matching entry
TransferTimesNoBreak(k, allow) ==
    Cardinality({i \in DOMAIN allow : allow[i] = k})

\* lines 117-124: how often the values of the upstream header k are added:
\* once when an entry of the allow-list equals k (break), else never
TransferTimes(k, allow) ==
    IF \E i \in DOMAIN allow : allow[i] = k THEN 1 ELSE 0

RECURSIVE Repeat(_, _)
Repeat(vv, n) == IF n = 0 THEN <<>> ELSE vv \o Repeat(vv, n - 1)

\* lines 116-125, one iteration of the outer loop, for the upstream header k
TransferHeader(k) ==
    /\ pc = "transfer"
    /\ k \in todo
    /\ LET vv == Repeat(res.Header[k], TransferTimes(k, opt.TransferResponseHeaders))
       IN  /\ wHeader' = HeaderAddAll(wHeader, k, vv)
           /\ log' = log \o [i \in 1..Len(vv) |-> Call("Add", CanonicalMIMEHeaderKey(k))]
    /\ todo' = todo \ {k}
    /\ UNCHANGED <<pc, inputVars, targetVars, trace, encoderVars, err, apiReq,
                   sent, res, resClosed,
                   wCommitted, wStatus, wBody, renderVars>>

\* the loop of line 116 has visited every upstream header
TransferDone ==
    /\ pc = "transfer"
    /\ todo = {}
    /\ pc' = StepAfter("transfer")
    /\ UNCHANGED <<inputVars, targetVars, trace, encoderVars, err, apiReq,
                   sent, res, resClosed, todo,
                   sinkVars, renderVars>>

\* http.ResponseWriter.WriteHeader sends the status code with the header as
\* it is at the call; later changes of writer.Header() are not sent
CommitHeader(h) == h

\* lines 127-130
WriteStatus ==
    /\ pc = "status"
    /\ wStatus' = Append(wStatus, res.StatusCode)
    /\ wCommitted' = CommitHeader(wHeader)
    /\ log' = Append(log, Call("WriteHeader", ""))
    /\ resContentEncoding' = HeaderGet(res.Header, "Content-Encoding")
    /\ pc' = StepAfter("status")
    /\ UNCHANGED <<inputVars, targetVars, trace, encoderVars, err, apiReq,
                   sent, res, resClosed, todo,
                   wHeader, wBody, reader, m, buf>>

\* lines 135-145: the bytes the decoder reads, by the upstream encoding
ResponseReader(encoding, body) ==
    IF encoding = "gzip" THEN Gunzip(body) ELSE body

\* lines 132-145
GzipSetup ==
    /\ pc = "body"
    /\ opt.ResponseJSONInterceptor # "nil"
    /\ IF resContentEncoding = "gzip" /\ ~GzipHeaderOK(res.Body)
       THEN /\ RendererReturns("gzip")
            /\ reader' = reader
       ELSE /\ reader' = ResponseReader(resContentEncoding, res.Body)
            /\ pc' = "decode"
            /\ UNCHANGED <<err, resClosed>>
    /\ UNCHANGED <<inputVars, targetVars, trace, encoderVars, apiReq, sent,
                   res, todo, sinkVars,
                   resContentEncoding, m, buf>>

\* lines 147-149
DecodeResponse ==
    /\ pc = "decode"
    /\ LET d == JSONDecode(reader)
       IN  IF d.ok
           THEN /\ m' = d.v
                /\ pc' = "intercept"
                /\ UNCHANGED <<err, resClosed>>
           ELSE /\ RendererReturns("json decode")
                /\ m' = m
    /\ UNCHANGED <<inputVars, targetVars, trace, encoderVars, apiReq, sent,
                   res, todo, sinkVars,
                   resContentEncoding, reader, buf>>

\* lines 151-156
InterceptResponse ==
    /\ pc = "intercept"
    /\ m' = ApplyJSONInterceptor(opt.ResponseJSONInterceptor, m)
    /\ IF JSONCanEncode(m')
       THEN /\ buf' = JSONEncode(m')
            /\ pc' = "write"
            /\ UNCHANGED <<err, resClosed>>
       ELSE /\ RendererReturns("json encode")
            /\ buf' = buf
    /\ UNCHANGED <<inputVars, targetVars, trace, encoderVars, apiReq, sent,
                   res, todo, sinkVars,
                   resContentEncoding, reader>>

\* lines 158-159: the headers of the re-encoded body
JSONHeaders(h, b) ==
    HeaderSet(HeaderSet(h, "Content-Type", "application/json; charset=utf-8"),
              "Content-Length", Itoa(Len(b)))

\* lines 158-165
WriteJSON ==
    /\ pc = "write"
    /\ wHeader' = JSONHeaders(wHeader, buf)
    /\ log' = log \o <<Call("Set", "Content-Type"), Call("Set", "Content-Length"),
                       Call("Write", "json")>>
    /\ \E ok \in BOOLEAN :
        /\ wBody' = IF ok THEN wBody \o buf ELSE wBody
        /\ RendererReturns(IF ok THEN NoError ELSE "write")
    /\ UNCHANGED <<inputVars, targetVars, trace, encoderVars, apiReq, sent,
                   res, todo, wCommitted, wStatus,
                   renderVars>>

\* lines 168-176: the headers of the streamed body
StreamHeaders(h, up, encoding) ==
    LET h1 == HeaderSet(h, "Content-Type", HeaderGet(up, "Content-Type"))
        h2 == IF HeaderGet(up, "Content-Length") # ""
              THEN HeaderSet(h1, "Content-Length", HeaderGet(up, "Content-Length"))
              ELSE h1
    IN  IF encoding # "" THEN HeaderSet(h2, "Content-Encoding", encoding) ELSE h2

StreamCalls(up, encoding) ==
    <<Call("Set", "Content-Type")>>
    \o (IF HeaderGet(up, "Content-Length") # ""
        THEN <<Call("Set", "Content-Length")>> ELSE <<>>)
    \o (IF encoding # "" THEN <<Call("Set", "Content-Encoding")>> ELSE <<>>)
    \o <<Call("Copy", "stream")>>

\* lines 168-180; a failed io.Copy has written a proper prefix of the body
StreamBody ==
    /\ pc = "body"
    /\ opt.ResponseJSONInterceptor = "nil"
    /\ wHeader' = StreamHeaders(wHeader, res.Header, resContentEncoding)
    /\ log' = log \o StreamCalls(res.Header, resContentEncoding)
    /\ \E n \in 0..Len(res.Body) :
        /\ wBody' = wBody \o SubSeq(res.Body, 1, n)
        /\ RendererReturns(IF n = Len(res.Body) THEN NoError ELSE "copy")
    /\ UNCHANGED <<inputVars, targetVars, trace, encoderVars, apiReq, sent,
                   res, todo, wCommitted, wStatus,
                   renderVars>>

(* --------------------------- specification ---------------------------- *)

Next ==
    \/ Resolve
    \/ EncodeNone
    \/ EncodeRaw
    \/ EncodeForm
    \/ MultipartParse
    \/ MultipartFields
    \/ MultipartOpen
    \/ MultipartCreate
    \/ MultipartCopy
    \/ MultipartClose
    \/ MultipartFinish
    \/ BuildRequest
    \/ DoAPIRequest
    \/ \E k \in todo : TransferHeader(k)
    \/ TransferDone
    \/ WriteStatus
    \/ GzipSetup
    \/ DecodeResponse
    \/ InterceptResponse
    \/ WriteJSON
    \/ StreamBody

Spec == Init /\ [][Next]_vars

(* ------------------------------ properties ---------------------------- *)

EncoderErrors ==
    {"request json decode", "request json encode", "parse form", "malformed",
     "too large", "write field", "open file", "create part", "copy file"}

RendererErrors == {"gzip", "json decode", "json encode", "write", "copy"}

\* the positions of the calls op in the log of the sink
CallsOf(op) == {i \in DOMAIN log : log[i].op = op}

\* the encoder has returned to ProxyAPI
EncoderReturned ==
    pc \notin {"start", "encode", "fields", "open", "create", "copy", "close", "finish"}

\* the collaborator answered: the renderer was reached
RendererReached == res # NoResponse

\* C1: every copy of an allow-listed upstream header value into the outbound
\* response (writer.Header().Add) comes before the write of the status code;
\* none comes after it.
C1_TransferBeforeStatus ==
    \A i \in CallsOf("Add") : \A j \in CallsOf("WriteHeader") : i < j

\* a call that transferred header values and wrote the status has returned
C1_Witness ==
    /\ pc = "done"
    /\ Cardinality(CallsOf("Add")) >= 2
    /\ CallsOf("WriteHeader") # {}

\* C2: when the multipart encoder has returned, with a body or with an
\* error, no uploaded-file handle it opened is still open.
C2_HandlesClosedOnReturn ==
    EncoderReturned => \A i \in DOMAIN handles : handles[i] # "open"

\* C3: after a successful send, res.Body has been closed exactly once when
\* ProxyAPI has returned, whatever the exit path of the renderer, and it is
\* never closed more than once nor before the return.
C3_BodyClosedOnce ==
    /\ resClosed <= 1
    /\ (pc = "done" /\ RendererReached) => resClosed = 1
    /\ pc # "done" => resClosed = 0

\* the renderer returned the error of the JSON encoder, the body closed
C3_Witness ==
    /\ pc = "done"
    /\ err = "json encode"
    /\ resClosed = 1

\* the body writes of the call: writes of the re-encoded JSON buffer and
\* streamed copies of the upstream body
BodyWrites == CallsOf("Write") \cup CallsOf("Copy")

\* C4 as stated: a forwarding call performs exactly one write of the status
\* code, followed by exactly one body write, of the JSON buffer or of the
\* streamed body, never both.
C4_ExactlyOneStatusAndBody ==
    pc = "done" =>
        /\ Cardinality(CallsOf("WriteHeader")) = 1
        /\ Cardinality(BodyWrites) = 1
        /\ \A i \in CallsOf("WriteHeader") : \A j \in BodyWrites : i < j

\* C4, amended: a call never writes the status more than once nor the body
\* more than once (JSON buffer or streamed copy, never both), and a body
\* write follows the status write; a call that reached the renderer has
\* written the status exactly once when it returns, and the body exactly once
\* unless gzip setup, JSON decoding or JSON encoding failed, in which case no
\* body write was made; a call that returned from the encoder or the send
\* with an error has written neither.
C4_StatusThenAtMostOneBody ==
    /\ Cardinality(CallsOf("WriteHeader")) <= 1
    /\ Cardinality(BodyWrites) <= 1
    /\ \A j \in BodyWrites : \E i \in CallsOf("WriteHeader") : i < j
    /\ (pc = "done" /\ RendererReached) =>
          /\ Cardinality(CallsOf("WriteHeader")) = 1
          /\ Cardinality(BodyWrites) =
                IF err \in {"gzip", "json decode", "json encode"} THEN 0 ELSE 1
    /\ (pc = "done" /\ ~RendererReached) =>
          CallsOf("WriteHeader") = {} /\ BodyWrites = {}

\* a call has returned without error after the write of the JSON buffer
C4_Witness ==
    /\ pc = "done"
    /\ err = NoError
    /\ Cardinality(CallsOf("WriteHeader")) = 1
    /\ Cardinality(CallsOf("Write")) = 1
    /\ CallsOf("Copy") = {}

\* C5: when ProxyAPI returns an error of the request encoder or of the send,
\* the sink is untouched (no header added or set, no status, no body byte);
\* an error of gzip setup, JSON decoding, JSON encoding or the body write or
\* copy is returned only with the status code already written.
C5_ErrorBeforeOrAfterCommit ==
    pc = "done" =>
        /\ err \in EncoderErrors \cup {"send"} =>
              /\ wHeader = EmptyHeader
              /\ wStatus = <<>>
              /\ wBody = <<>>
              /\ log = <<>>
        /\ err \in RendererErrors => Len(wStatus) = 1

\* the send failed after a successful encoder, and the sink is untouched
C5_Witness ==
    /\ pc = "done"
    /\ err = "send"
    /\ reqBody.kind = "multipart"
    /\ log = <<>>

\* C6: when the selected encoder fails, ProxyAPI returns that error and the
\* collaborator is never invoked: no request is built and none is sent.
C6_EncoderErrorNothingSent ==
    err \in EncoderErrors =>
        /\ pc = "done"
        /\ sent = <<>>
        /\ apiReq = NoRequest
        /\ res = NoResponse

\* the multipart encoder failed on the copy of the second file
C6_Witness ==
    /\ pc = "done"
    /\ err = "copy file"
    /\ fi = 2
    /\ sent = <<>>

\* the names of the allow-list
AllowListed == {opt.TransferResponseHeaders[i] : i \in DOMAIN opt.TransferResponseHeaders}

SpecialHeaders == {"Content-Type", "Content-Length", "Content-Encoding"}

\* the transfer loop has ended
TransferEnded == RendererReached /\ pc # "transfer"

\* what the transfer adds: the upstream headers named by the allow-list, each
\* value once, in the upstream order
TransferAddsExactly ==
    /\ pc = "status" =>
          /\ DOMAIN wHeader = (DOMAIN res.Header) \cap AllowListed
          /\ \A k \in DOMAIN wHeader : wHeader[k] = res.Header[k]
    /\ \A k \in (DOMAIN wHeader) \ SpecialHeaders :
          k \in (DOMAIN res.Header) \cap AllowListed /\ wHeader[k] = res.Header[k]
    /\ \A k \in ((DOMAIN res.Header) \cap AllowListed) \ SpecialHeaders :
          k \in DOMAIN wHeader
    /\ \A k \in DOMAIN res.Header :
          Cardinality({i \in CallsOf("Add") : log[i].k = k}) =
              IF k \in AllowListed THEN Len(res.Header[k]) ELSE 0

\* C7 as stated: the transfer adds exactly the allow-listed upstream headers,
\* each value once, and a name outside the allow-list never appears in the
\* outbound response, except Content-Type, Content-Length and
\* Content-Encoding on the path without a ResponseJSONInterceptor.
C7_OnlyAllowListedHeaders ==
    TransferEnded =>
        /\ TransferAddsExactly
        /\ \A k \in DOMAIN wHeader :
              \/ k \in AllowListed
              \/ opt.ResponseJSONInterceptor = "nil" /\ k \in SpecialHeaders

\* C7, amended: the transfer adds exactly the allow-listed upstream headers,
\* each value once, and a name outside the allow-list never appears in the
\* outbound response, except Content-Type, Content-Length and
\* Content-Encoding on the path without a ResponseJSONInterceptor, and
\* Content-Type and Content-Length on the path with one.
C7_AllowListedAndRendererHeaders ==
    TransferEnded =>
        /\ TransferAddsExactly
        /\ \A k \in DOMAIN wHeader :
              \/ k \in AllowListed
              \/ opt.ResponseJSONInterceptor = "nil" /\ k \in SpecialHeaders
              \/ opt.ResponseJSONInterceptor # "nil"
                 /\ k \in {"Content-Type", "Content-Length"}

\* an allow-list that repeats Set-Cookie transferred both cookies once, and
\* the JSON branch set its two headers
C7_Witness ==
    /\ pc = "done"
    /\ opt.TransferResponseHeaders = <<"Set-Cookie", "Set-Cookie">>
    /\ opt.ResponseJSONInterceptor # "nil"
    /\ DOMAIN wHeader = {"Set-Cookie", "Content-Type", "Content-Length"}
    /\ wHeader["Set-Cookie"] = <<"a", "b">>

\* C8: with a ResponseJSONInterceptor and an upstream Content-Encoding of
\* gzip, for every allow-list, a call that returns no error decoded the
\* decompressed body, its outbound response has no Content-Encoding header,
\* and its Content-Length is the byte length of the JSON that was written.
C8_GzipRewriteHeaders ==
    (/\ pc = "done"
     /\ err = NoError
     /\ opt.ResponseJSONInterceptor # "nil"
     /\ HeaderGet(res.Header, "Content-Encoding") = "gzip") =>
        /\ reader = Gunzip(res.Body)
        /\ "Content-Encoding" \notin DOMAIN wHeader
        /\ "Content-Length" \in DOMAIN wHeader
        /\ wHeader["Content-Length"] = <<Itoa(Len(wBody))>>

\* C9: without a ResponseJSONInterceptor, when the streamed copy completes,
\* the Content-Length and Content-Encoding the sink sent are the upstream
\* ones, every value (absent when upstream has none), the Content-Type it
\* sent is the upstream Content-Type, and the bytes written are the upstream
\* body, for every allow-list.
C9_StreamedPassthrough ==
    (/\ pc = "done"
     /\ RendererReached
     /\ err = NoError
     /\ opt.ResponseJSONInterceptor = "nil") =>
        /\ \A k \in {"Content-Length", "Content-Encoding"} :
              IF k \in DOMAIN res.Header
              THEN k \in DOMAIN wCommitted /\ wCommitted[k] = res.Header[k]
              ELSE k \notin DOMAIN wCommitted
        /\ "Content-Type" \in DOMAIN res.Header =>
              /\ "Content-Type" \in DOMAIN wCommitted
              /\ wCommitted["Content-Type"] = res.Header["Content-Type"]
        /\ wBody = res.Body

\* the header C10 describes before the RequestInterceptor runs: every inbound
\* name with all its values, Content-Type replaced by the encoder's content
\* type when that is not empty
CopiedThenContentType ==
    IF reqContentType # ""
    THEN [k \in (DOMAIN httpReq.Header) \cup {"Content-Type"} |->
            IF k = "Content-Type" THEN <<reqContentType>> ELSE httpReq.Header[k]]
    ELSE httpReq.Header

\* C10: the header of the outbound request is the copy of every inbound
\* header with all its values, with Content-Type overwritten by the encoder's
\* content type when that is not empty; the RequestInterceptor runs after
\* that, so what it sets is in the request that is sent.
C10_OutboundHeaderOrder ==
    \A n \in DOMAIN sent :
        LET h == sent[n].Header
            c == CopiedThenContentType
        IN  IF opt.RequestInterceptor = "nil"
            THEN h = c
            ELSE /\ DOMAIN h = (DOMAIN c) \cup {"Content-Type", "X-Tag"}
                 /\ h["Content-Type"] = <<"application/custom">>
                 /\ h["X-Tag"] =
                       (IF "X-Tag" \in DOMAIN c THEN c["X-Tag"] ELSE <<>>) \o <<"t">>
                 /\ \A k \in (DOMAIN c) \ {"Content-Type", "X-Tag"} : h[k] = c[k]

\* a form request with inbound headers was sent after the RequestInterceptor
\* replaced the Content-Type the encoder chose
C10_Witness ==
    /\ Len(sent) = 1
    /\ requestType = ProxyRequestTypeForm
    /\ opt.RequestInterceptor = "tag"
    /\ reqContentType = "text/plain"
    /\ sent[1].Header["Content-Type"] = <<"application/custom">>
    /\ sent[1].Header["X-Tag"] = <<"a", "b", "t">>

\* C11: the collaborator is invoked at most once per call; when that
\* invocation fails, ProxyAPI has returned exactly the error it answered
\* with, and has done nothing further: no response is held, nothing was
\* closed and the sink is untouched.
C11_OneSendErrorUnchanged ==
    /\ Len(sent) <= 1
    /\ \A n \in DOMAIN sent :
          sent[n].err # NoError =>
              /\ pc = "done"
              /\ err = sent[n].err
              /\ res = NoResponse
              /\ resClosed = 0
              /\ log = <<>>
              /\ wHeader = EmptyHeader /\ wStatus = <<>> /\ wBody = <<>>

\* the one invocation of the collaborator failed and the call has returned
C11_Witness ==
    /\ pc = "done"
    /\ Len(sent) = 1
    /\ sent[1].err = "send"
    /\ err = "send"


\* the method and the path of every invocation of the collaborator are those
\* the request was built with
TargetSent(mth, p) ==
    /\ pc \notin {"start", "encode", "fields", "open", "create", "copy", "close",
                  "finish", "build"} /\ apiReq # NoRequest
          => apiReq.Method = mth /\ apiReq.Path = p
    /\ \A n \in DOMAIN sent : sent[n].Method = mth /\ sent[n].Path = p

\* the method the claim names: the caller's when non-empty, else the inbound one
ClaimedMethod == IF args.method # "" THEN args.method ELSE httpReq.Method

\* C12: the outbound path is the caller's path verbatim when it is non-empty,
\* and otherwise the inbound path, as it was received, followed by "?" and the
\* inbound query only when the query is non-empty and by "#" and the inbound
\* fragment only when the fragment is non-empty; the outbound method is the
\* caller's when non-empty and the inbound method otherwise.
C12_PathAndMethodResolved ==
    pc # "start" =>
        LET p == IF args.path # "" THEN args.path
                 ELSE EscapedPath(httpReq.URL)
                      \o (IF httpReq.URL.RawQuery # ""
                          THEN "?" \o httpReq.URL.RawQuery ELSE "")
                      \o (IF httpReq.URL.Fragment # ""
                          THEN "#" \o EscapedFragment(httpReq.URL) ELSE "")
        IN  /\ path = p /\ method = ClaimedMethod
            /\ TargetSent(ClaimedMethod, p)


\* the names of the four encoders
EncoderNames ==
    {"parseRawRequest", "parseFormRequest", "parseMultipartFormRequest", "func"}

\* the encoders called so far, in order
EncodersRun == SelectSeq(trace, LAMBDA c : c \in EncoderNames)

\* C13: exactly one encoder runs per call and requestType alone determines
\* it: "RAW" the raw encoder, "FORM" the form encoder, "MULTIPART_FORM" the
\* multipart encoder, and every other value, the empty string and other
\* spellings of these names included, a no-op encoder that does not read or
\* close the inbound body, does not fail, and yields an empty body and an
\* empty content type, with which the request is built and sent.
C13_OneEncoderByRequestType ==
    /\ pc \in {"start", "encode"} => EncodersRun = <<>>
    /\ pc \notin {"start", "encode"} =>
        /\ Len(EncodersRun) = 1
        /\ trace[1] = EncodersRun[1]
        /\ requestType = "RAW" <=> EncodersRun[1] = "parseRawRequest"
        /\ requestType = "FORM" <=> EncodersRun[1] = "parseFormRequest"
        /\ requestType = "MULTIPART_FORM"
               <=> EncodersRun[1] = "parseMultipartFormRequest"
        /\ requestType \notin {"RAW", "FORM", "MULTIPART_FORM"} =>
            /\ EncodersRun[1] = "func"
            /\ \A i \in DOMAIN trace : trace[i] \in {"func", "DoAPIRequest"}
            /\ inClosed = 0
            /\ reqBody = NilBody
            /\ reqContentType = ""
            /\ err \notin EncoderErrors
            /\ pc = "done" => Len(sent) = 1
            /\ pc # "build" => apiReq.Body = NilBody
            /\ \A n \in DOMAIN sent :
                  /\ sent[n].Body = NilBody
                  /\ opt.RequestInterceptor = "nil" =>
                        HeaderGet(sent[n].Header, "Content-Type")
                            = HeaderGet(httpReq.Header, "Content-Type")

\* a call with the request type "raw" ran the no-op encoder and sent a request
\* without a body
C13_Witness ==
    /\ requestType = "raw"
    /\ trace = <<"func", "DoAPIRequest">>
    /\ sent[1].Body = NilBody
    /\ HeaderGet(httpReq.Header, "Content-Type") # ""


\* url.QueryUnescape on the keys and values that occur here
QueryUnescape(x) == IF x = "x+y" THEN "x y" ELSE x

\* url.ParseQuery: the pairs k=v of the body, each value appended to the
\* values of its key
RECURSIVE ParsePairs(_, _)
ParsePairs(s, acc) ==
    IF Len(s) < 3 THEN acc
    ELSE LET k == QueryUnescape(s[1])
             v == QueryUnescape(s[3])
             next == IF k \in DOMAIN acc THEN [acc EXCEPT ![k] = Append(@, v)]
                     ELSE [x \in DOMAIN acc \cup {k} |->
                              IF x = k THEN <<v>> ELSE acc[x]]
         IN  ParsePairs(IF Len(s) > 4 THEN SubSeq(s, 5, Len(s)) ELSE <<>>, next)

ValuesDecode(s) == ParsePairs(s, NoForm)

\* the fields the form encoder has to send: the parsed fields, or what the
\* RequestFormInterceptor makes of them
ExpectedForm ==
    IF opt.RequestFormInterceptor = "dropB"
    THEN [k \in DOMAIN httpReq.PostForm \ {"b"} |-> httpReq.PostForm[k]]
    ELSE httpReq.PostForm

\* C14: for a Form request whose parse succeeds, the outbound body decodes to
\* exactly the parsed fields, every key with all its values in order, or to
\* the result of the RequestFormInterceptor on them when one is set; the
\* content type is the inbound Content-Type when present and
\* application/x-www-form-urlencoded otherwise.
C14_FormRoundTrip ==
    (requestType = "FORM" /\ EncoderReturned /\ err \notin EncoderErrors) =>
        /\ reqBody.kind = "string"
        /\ ValuesDecode(reqBody.bytes) = ExpectedForm
        /\ reqContentType =
              (IF HeaderGet(httpReq.Header, "Content-Type") # ""
               THEN HeaderGet(httpReq.Header, "Content-Type")
               ELSE "application/x-www-form-urlencoded")
        /\ \A n \in DOMAIN sent :
              /\ ValuesDecode(sent[n].Body.bytes) = ExpectedForm
              /\ opt.RequestInterceptor = "nil" =>
                    HeaderGet(sent[n].Header, "Content-Type") = reqContentType

\* the fields a: 1, 2 and b: "x y" were sent as a=1&a=2&b=x+y with the
\* default content type
C14_Witness ==
    /\ requestType = "FORM"
    /\ opt.RequestFormInterceptor = "nil"
    /\ httpReq.Header = EmptyHeader
    /\ Len(sent) = 1
    /\ sent[1].Body.bytes
          = <<"a", "=", "1", "&", "a", "=", "2", "&", "b", "=", "x+y">>
    /\ reqContentType = "application/x-www-form-urlencoded"


\* C15: no header of the outbound response is set or added after the status
\* code has been written: on both renderer branches every Set and every Add
\* on the sink's header precedes the WriteHeader call.
C15_HeadersBeforeStatus ==
    \A i \in CallsOf("Set") \cup CallsOf("Add"), j \in CallsOf("WriteHeader") :
        i < j


\* the positions of the call c in the trace of the request side
TraceOf(c) == {i \in DOMAIN trace : trace[i] = c}

\* C16: in the raw encoder with a RequestJSONInterceptor, the inbound body is
\* closed, once, on every exit path (re-encoded, decode failure, encode
\* failure), after it was decoded, and the interceptor is applied, once,
\* exactly when the body decoded; without an interceptor the inbound body is
\* returned as the outbound body, neither read nor closed, with the inbound
\* Content-Type or application/octet-stream when that is absent.
C16_RawEncoder ==
    (requestType = "RAW" /\ EncoderReturned) =>
        IF opt.RequestJSONInterceptor # "nil"
        THEN /\ inClosed = 1
             /\ Cardinality(TraceOf("Body.Close")) = 1
             /\ Cardinality(TraceOf("Decode")) = 1
             /\ \A i \in TraceOf("Decode"), j \in TraceOf("Body.Close") : i < j
             /\ Cardinality(TraceOf("RequestJSONInterceptor"))
                   = (IF JSONDecode(httpReq.Body).ok THEN 1 ELSE 0)
             /\ \A i \in TraceOf("Decode"), j \in TraceOf("RequestJSONInterceptor") :
                   i < j
             /\ ~JSONDecode(httpReq.Body).ok => err = "request json decode"
        ELSE /\ inClosed = 0
             /\ TraceOf("Body.Close") = {}
             /\ TraceOf("Decode") = {}
             /\ err \notin EncoderErrors
             /\ reqBody = [kind |-> "stream", bytes |-> httpReq.Body]
             /\ reqContentType =
                   (IF HeaderGet(httpReq.Header, "Content-Type") # ""
                    THEN HeaderGet(httpReq.Header, "Content-Type")
                    ELSE "application/octet-stream")

\* the raw encoder failed to decode the inbound body; the body is closed and
\* the interceptor was not applied
C16_Witness ==
    /\ requestType = "RAW"
    /\ opt.RequestJSONInterceptor # "nil"
    /\ pc = "done"
    /\ err = "request json decode"
    /\ inClosed = 1
    /\ trace = <<"parseRawRequest", "Decode", "Body.Close">>


\* the positions in the trace of the calls that copy fields and files
CopyCalls ==
    TraceOf("WriteField") \cup TraceOf("Open") \cup TraceOf("CreateFormFile")
    \cup TraceOf("Copy") \cup TraceOf("File.Close")

\* the number of values of the fields of the inbound form
RECURSIVE FieldCount(_, _)
FieldCount(form, keys) ==
    IF keys = {} THEN 0
    ELSE LET k == CHOOSE x \in keys : TRUE
         IN  Len(form[k]) + FieldCount(form, keys \ {k})

\* the parts of body b that are closing boundaries
Closings(b) == {i \in DOMAIN b.bytes : b.bytes[i] = ClosingBoundary}

\* C17: in the multipart encoder every field and every file part is copied
\* before the RequestMultipartFormInterceptor is invoked, the interceptor is
\* invoked before the writer is finalized, and the writer is finalized before
\* the request is sent; the interceptor is invoked exactly once when it is set
\* and every copy succeeded, and never when the parse, a field write, a file
\* open, a part creation or a copy failed; the body the collaborator receives
\* holds every field and file and ends with the one closing boundary.
C17_MultipartOrder ==
    requestType = "MULTIPART_FORM" =>
        /\ \A c \in CopyCalls, i \in TraceOf("RequestMultipartFormInterceptor") : c < i
        /\ \A i \in TraceOf("RequestMultipartFormInterceptor"),
              w \in TraceOf("Writer.Close") : i < w
        /\ \A c \in CopyCalls, w \in TraceOf("Writer.Close") : c < w
        /\ \A w \in TraceOf("Writer.Close"), d \in TraceOf("DoAPIRequest") : w < d
        /\ Cardinality(TraceOf("Writer.Close")) <= 1
        /\ ~EncoderReturned => TraceOf("RequestMultipartFormInterceptor") = {}
        /\ EncoderReturned =>
              Cardinality(TraceOf("RequestMultipartFormInterceptor"))
                 = (IF opt.RequestMultipartFormInterceptor # "nil"
                       /\ err \notin EncoderErrors
                    THEN 1 ELSE 0)
        /\ (EncoderReturned /\ err \notin EncoderErrors) =>
              /\ Cardinality(TraceOf("WriteField"))
                    = FieldCount(httpReq.PostForm, DOMAIN httpReq.PostForm)
              /\ Cardinality(TraceOf("Copy")) = Len(httpReq.File)
              /\ Cardinality(TraceOf("Writer.Close")) = 1
              /\ reqBody.kind = "multipart"
              /\ Closings(reqBody) = {Len(reqBody.bytes)}
        /\ \A n \in DOMAIN sent :
              /\ sent[n].Body = reqBody
              /\ Closings(sent[n].Body) = {Len(sent[n].Body.bytes)}
              /\ TraceOf("Writer.Close") # {}

\* two files and three field values were copied, the interceptor added its
\* field, the writer was closed and the request was sent
C17_Witness ==
    /\ requestType = "MULTIPART_FORM"
    /\ opt.RequestMultipartFormInterceptor = "addField"
    /\ Len(httpReq.File) = 2
    /\ httpReq.PostForm # NoForm
    /\ Len(sent) = 1
    /\ Len(sent[1].Body.bytes) = 7
    /\ sent[1].Body.bytes[6] = Part("field", "extra", "", <<"e">>)
    /\ sent[1].Body.bytes[7] = ClosingBoundary
    /\ trace[Len(trace) - 2] = "RequestMultipartFormInterceptor"
    /\ trace[Len(trace) - 1] = "Writer.Close"


\* the uploaded files whose handle is open
OpenHandles == {i \in DOMAIN handles : handles[i] = "open"}

\* C18: while the multipart encoder runs at most one uploaded-file handle is
\* open: the handle of the file the loop is at; every earlier file is closed
\* again and no later file has been opened.
C18_OneHandleOpen ==
    /\ Cardinality(OpenHandles) <= 1
    /\ pc \in {"open", "create", "copy", "close"} =>
          /\ OpenHandles \subseteq {fi}
          /\ \A i \in DOMAIN handles :
                /\ i < fi => handles[i] = "closed"
                /\ i > fi => handles[i] = "unopened"
          /\ pc \in {"create", "copy", "close"} => handles[fi] = "open"

\* the second file is open after the first was opened, copied and closed
C18_Witness ==
    /\ pc = "copy"
    /\ fi = 2
    /\ handles[1] = "closed"
    /\ handles[2] = "open"
    /\ TraceOf("File.Close") # {}

====
